---------------------------- MODULE Spec2Model ----------------------------
(***************************************************************************)
(* Model of commit_verifier.py: the feature-table parser                   *)
(* (parse_feature_table) and the seven-step verification pipeline          *)
(* (run_verification) with its two remote fetches.                         *)
(*                                                                         *)
(* A Python str is a sequence of one-character strings; None (for an       *)
(* Optional[str]) is the one-element sequence NoneStr, which no text of    *)
(* the model equals.                                                       *)
(***************************************************************************)
EXTENDS Integers, Sequences, FiniteSets, TLC

VARIABLES
    environment,    \* main: the environment file and the variables read after it
    config_file,    \* main: the YAML configuration file on disk
    exit_code,      \* main: <<>> while the process runs, then <<its exit status>>
    config,         \* the VerificationConfig (read-only during a run)
    pc,             \* position of run_verification
    doc_content,    \* result of fetch_github_file
    lines,          \* parse_feature_table: the stripped lines of the document
    in_table,       \* parse_feature_table: the inside-table flag
    pos,            \* parse_feature_table: number of lines already scanned
    features,       \* parse_feature_table / run_verification: parsed records
    origin,         \* history: origin[k] = index of the line features[k] came from
    idx,            \* run_verification step 6: index of the current record
    commit_detail,  \* result of the last verify_commit
    requests,       \* history: the network requests issued, in order
    trace,          \* history: the checks evaluated, in order, with their outcome
    result          \* "None" while running, then "True", "False" or "Error"

\* the inputs of main and its exit status
startup == <<environment, config_file, exit_code>>

vars == <<startup, config, pc, doc_content, lines, in_table, pos, features, origin, idx,
          commit_detail, requests, trace, result>>

-----------------------------------------------------------------------------
(* Bounds of the model *)

MaxLines == 4

MaxRows == 2

MaxMinCount == 2

(* len(cols) >= 7 *)
MinCells == 7

-----------------------------------------------------------------------------
(* Python str operations, as the code uses them *)

NoneStr == <<"<None>">>

Whitespace == {" ", "\t", "\r", "\n"}

\* sub in s
Contains(s, sub) ==
    \E i \in 0..(Len(s) - Len(sub)) : SubSeq(s, i + 1, i + Len(sub)) = sub

\* s.startswith(c), c one character
StartsWith(s, c) == Len(s) >= 1 /\ s[1] = c

RECURSIVE LStrip(_)
LStrip(s) ==
    IF s # <<>> /\ s[1] \in Whitespace THEN LStrip(Tail(s)) ELSE s

RECURSIVE RStrip(_)
RStrip(s) ==
    IF s # <<>> /\ s[Len(s)] \in Whitespace
    THEN RStrip(SubSeq(s, 1, Len(s) - 1))
    ELSE s

\* s.strip()
Strip(s) == RStrip(LStrip(s))

\* index of the first occurrence of character c in s, 0 when there is none
RECURSIVE IndexOf(_, _, _)
IndexOf(s, c, i) ==
    IF i > Len(s) THEN 0
    ELSE IF s[i] = c THEN i
    ELSE IndexOf(s, c, i + 1)

\* s.split(c): always at least one piece
RECURSIVE Split(_, _)
Split(s, c) ==
    LET k == IndexOf(s, c, 1) IN
    IF k = 0 THEN <<s>>
    ELSE <<SubSeq(s, 1, k - 1)>> \o Split(SubSeq(s, k + 1, Len(s)), c)

\* s.replace(c, "")
Remove(s, c) == SelectSeq(s, LAMBDA x : x # c)

\* [f(x) for x in xs]
StripAll(xs) == [i \in 1..Len(xs) |-> Strip(xs[i])]

\* s.split("\n")[0]
FirstLine(s) == Split(s, "\n")[1]

Digit == {"0", "1", "2", "3", "4", "5", "6", "7", "8", "9"}

\* mutant: a two-digit year is accepted as well
MatchesDatePatternShortYear(s) ==
    LET t == IF Len(s) = 8 THEN <<"2", "0">> \o s ELSE s
    IN  /\ Len(t) = 10
        /\ \A i \in {1, 2, 3, 4, 6, 7, 9, 10} : t[i] \in Digit
        /\ t[5] = "-"
        /\ t[8] = "-"

\* mutant: the month and the day are checked against the calendar
MatchesDatePatternCalendar(s) ==
    /\ Len(s) = 10
    /\ \A i \in {1, 2, 3, 4, 6, 7, 9, 10} : s[i] \in Digit
    /\ s[5] = "-"
    /\ s[8] = "-"
    /\ <<s[6], s[7]>> \in {<<"0", d>> : d \in Digit \ {"0"}} \cup {<<"1", "0">>, <<"1", "1">>, <<"1", "2">>}
    /\ s[9] \in {"0", "1", "2", "3"}

\* re.match(r"^\d{4}-\d{2}-\d{2}$", s): $ also matches before a final newline
MatchesDatePattern(s) ==
    /\ Len(s) \in {10, 11}
    /\ \A i \in {1, 2, 3, 4, 6, 7, 9, 10} : s[i] \in Digit
    /\ s[5] = "-"
    /\ s[8] = "-"
    /\ Len(s) = 11 => s[11] = "\n"

-----------------------------------------------------------------------------
(* parse_feature_table *)

\* lines = [line.strip() for line in content.split("\n")]
Lines(content) == StripAll(Split(content, "\n"))

\* if table_header in line
IsHeaderLine(line, table_header) == Contains(line, table_header)

\* mutant: blanks and colons are allowed in a separator row
IsSeparatorLineLoose(line, inTable) ==
    /\ inTable
    /\ StartsWith(line, "|")
    /\ \A i \in 1..Len(line) : line[i] \in {"-", "|", ":", " "}

\* if in_table and line.startswith("|") and all(c in "-|" for c in line.replace("|", ""))
IsSeparatorLine(line, inTable) ==
    /\ inTable
    /\ StartsWith(line, "|")
    /\ \A i \in 1..Len(Remove(line, "|")) : Remove(line, "|")[i] \in {"-", "|"}

\* if in_table and line and not line.startswith("|") and "##" in line
IsTableEnd(line, inTable) ==
    /\ inTable
    /\ line # <<>>
    /\ ~StartsWith(line, "|")
    /\ Contains(line, <<"#", "#">>)

\* mutant: a row is parsed whether or not the header was seen
IsRowLineAnywhere(line, inTable) == StartsWith(line, "|")

\* if in_table and line.startswith("|")
IsRowLine(line, inTable) == inTable /\ StartsWith(line, "|")

\* mutant: empty cells are kept
ColsKeepEmpty(line) == StripAll(Split(line, "|"))

\* mutant: only the cells that are empty before stripping are dropped
ColsKeepBlank(line) ==
    StripAll(SelectSeq(Split(line, "|"), LAMBDA col : col # <<>>))

\* cols = [col.strip() for col in line.split("|") if col.strip()]
Cols(line) ==
    StripAll(SelectSeq(Split(line, "|"), LAMBDA col : Strip(col) # <<>>))

\* the feature dict built from cols[0..6]
Feature(cols) ==
    [name |-> cols[1], sha |-> cols[2], author |-> cols[3], branch |-> cols[4],
     date |-> cols[5], files_changed |-> cols[6], message |-> cols[7]]

\* mutant: a record whose sha is already present is dropped
AppendFeatureUnique(feats, feature) ==
    IF \E k \in 1..Len(feats) : feats[k].sha = feature.sha
    THEN feats
    ELSE Append(feats, feature)

\* features.append(feature)
AppendFeature(feats, feature) == Append(feats, feature)

\* mutant: the header test comes after the separator, end and row tests
LineKindHeaderLast(line, inTable, table_header) ==
    IF IsSeparatorLine(line, inTable) THEN "separator"
    ELSE IF IsTableEnd(line, inTable) THEN "end"
    ELSE IF IsRowLine(line, inTable) THEN
        (IF Len(Cols(line)) >= MinCells THEN "row" ELSE "short")
    ELSE IF IsHeaderLine(line, table_header) THEN "header"
    ELSE "other"

\* what one iteration of the loop does with a line
LineKind(line, inTable, table_header) ==
    IF IsHeaderLine(line, table_header) THEN "header"
    ELSE IF IsSeparatorLine(line, inTable) THEN "separator"
    ELSE IF IsTableEnd(line, inTable) THEN "end"
    ELSE IF IsRowLine(line, inTable) THEN
        (IF Len(Cols(line)) >= MinCells THEN "row" ELSE "short")
    ELSE "other"


-----------------------------------------------------------------------------
(* Texts the inputs are built from *)

TableHeader == <<"F", "N">>

DateGood == <<"2", "0", "2", "4", "-", "0", "1", "-", "1", "5">>

DateNoCalendar == <<"2", "0", "2", "4", "-", "1", "3", "-", "4", "5">>

DateShort == <<"2", "4", "-", "0", "1", "-", "0", "1">>

\* "|" + "|".join(cells) + "|"
RECURSIVE Row(_)
Row(cells) ==
    IF cells = <<>> THEN <<"|">>
    ELSE <<"|">> \o cells[1] \o Row(Tail(cells))

\* "| " + " | ".join(cells) + " |"
RECURSIVE PaddedRow(_)
PaddedRow(cells) ==
    IF cells = <<>> THEN <<"|">>
    ELSE <<"|", " ">> \o cells[1] \o <<" ">> \o PaddedRow(Tail(cells))

\* "\n".join(lines)
RECURSIVE JoinLines(_)
JoinLines(ls) ==
    IF ls = <<>> THEN <<>>
    ELSE IF Len(ls) = 1 THEN ls[1]
    ELSE ls[1] \o <<"\n">> \o JoinLines(Tail(ls))

\* the table's header row: contains the marker, starts with "|", has 7 cells
HeaderRow ==
    Row(<<TableHeader, <<"S">>, <<"A">>, <<"B">>, <<"D">>, <<"C">>, <<"M">>>>)

\* a heading that contains the marker and "##"
HeaderHeading == <<"#", "#", " ">> \o TableHeader

\* |-|-|-|-|-|-|-|
PlainSeparator ==
    Row(<<<<"-">>, <<"-">>, <<"-">>, <<"-">>, <<"-">>, <<"-">>, <<"-">>>>)

\* | :- | - | - | - | - | - | - |  (blanks around the dashes, one colon)
SpacedSeparator ==
    PaddedRow(<<<<":", "-">>, <<"-">>, <<"-">>, <<"-">>, <<"-">>, <<"-">>, <<"-">>>>)

\* a data row of 7 cells
DataRow(name, sha, message, date) ==
    Row(<<name, sha, <<"w">>, <<"m">>, date, <<"3">>, message>>)

\* a data row of 8 cells, padded, with leading and trailing blanks
WideRow ==
    <<" ">> \o PaddedRow(<<<<"b">>, <<"t">>, <<"w">>, <<"m">>, DateNoCalendar,
                           <<"3">>, <<"x">>, <<"z">>>>) \o <<" ">>

\* a row with 8 cells of which 6 are non-empty
ShortRow ==
    Row(<<<<"a">>, <<>>, <<"s">>, <<" ">>, <<"w">>, <<"m">>, <<"3">>, <<"x">>>>)

\* a heading that follows the table
EndHeading == <<"#", "#", " ", "E">>

\* the lines the parser's documents are drawn from
LinePool ==
    { HeaderRow, HeaderHeading, PlainSeparator, SpacedSeparator,
      DataRow(<<"a">>, <<"s">>, <<"x">>, DateGood), WideRow, ShortRow,
      EndHeading }

RECURSIVE SeqsUpTo(_, _)
SeqsUpTo(S, n) ==
    IF n = 0 THEN {<<>>}
    ELSE LET shorter == SeqsUpTo(S, n - 1) IN
         shorter \cup {Append(q, x) : q \in {r \in shorter : Len(r) = n - 1}, x \in S}

\* every document of at most MaxLines lines of the pool
ParseDocs == {JoinLines(ls) : ls \in SeqsUpTo(LinePool, MaxLines) \ {<<>>}}

-----------------------------------------------------------------------------
(* parse_feature_table, one loop iteration at a time (step 3 of the run) *)

EmptyDict == [k \in {} |-> <<>>]

\* an entry of the history of checks
Checked(step, check, ok) == [step |-> step, check |-> check, ok |-> ok]

NoDetail == [kind |-> "None"]

\* history of requests: a GET of the contents endpoint and what came back
FileRequest(resp) ==
    [kind |-> "file", sha |-> <<>>, rec |-> 0, status |-> resp.status,
     has_data |-> resp.status = "200" /\ resp.content \notin {NoneStr, <<>>},
     body |-> NoDetail]

\* history of requests: a GET of the commits endpoint for record rec, and what came back
CommitRequest(sha, rec, resp) ==
    [kind |-> "commit", sha |-> sha, rec |-> rec, status |-> resp.status,
     has_data |-> resp.status = "200" /\ resp.body.kind = "dict"
                  /\ (resp.body.other_keys \/ resp.body.author.kind # "absent"
                      \/ resp.body.commit.kind # "absent"),
     body |-> resp.body]

\* mutant: the end of the table skips the line instead of leaving the loop
AfterLineContinue(kind) == "step3"

\* for line in lines ... break: where the loop goes after a line
AfterLine(kind) == IF kind = "end" THEN "step3_break" ELSE "step3"

\* for line in lines: the body of the loop, for the line at pos + 1
ParseLine ==
    /\ pc = "step3"
    /\ pos < Len(lines)
    /\ LET line == lines[pos + 1]
           kind == LineKind(line, in_table, config.table_header)
       IN  /\ pos' = pos + 1
           /\ in_table' = (in_table \/ kind = "header")
           /\ features' = IF kind = "row"
                          THEN AppendFeature(features, Feature(Cols(line)))
                          ELSE features
           /\ origin' = IF kind = "row" THEN Append(origin, pos + 1) ELSE origin
           /\ pc' = AfterLine(kind)
    /\ UNCHANGED <<startup, config, doc_content, lines, idx, commit_detail, requests,
                   trace, result>>

\* return features; then step 3's check: if len(features) == 0: return False
ParseReturn ==
    /\ \/ pc = "step3_break"
       \/ pc = "step3" /\ pos = Len(lines)
    /\ trace' = Append(trace, Checked(3, "parsed", Len(features) # 0))
    /\ IF Len(features) = 0
       THEN pc' = "done" /\ result' = "False"
       ELSE pc' = "step4" /\ result' = result
    /\ UNCHANGED <<startup, config, doc_content, lines, in_table, pos, features, origin,
                   idx, commit_detail, requests>>

-----------------------------------------------------------------------------
(* load_environment and load_project_config *)

\* required_config_fields
RequiredConfigFields ==
    {"target_repo", "target_branch", "feature_doc_path", "table_header",
     "required_sections", "min_feature_count", "expected_features",
     "expected_authors", "expected_messages", "expected_dates"}

\* the environment file and what os.getenv returns once it is loaded
Environment(file_exists, token, org) ==
    [file_exists |-> file_exists, GITHUB_TOKEN |-> token, GITHUB_ORG |-> org]

\* an environment file that defines both variables
GoodEnvironment == Environment(TRUE, <<"k">>, <<"o">>)

Environments ==
    { GoodEnvironment,
      Environment(FALSE, <<"k">>, <<"o">>),
      Environment(TRUE, NoneStr, <<"o">>),
      Environment(TRUE, <<>>, <<"o">>),
      Environment(TRUE, <<"k">>, NoneStr),
      Environment(TRUE, <<"k">>, <<>>) }

\* load_environment ends the process: no file, or not github_token, or not github_org
LoadEnvironmentExits(env) ==
    \/ ~env.file_exists
    \/ env.GITHUB_TOKEN = NoneStr \/ env.GITHUB_TOKEN = <<>>
    \/ env.GITHUB_ORG = NoneStr \/ env.GITHUB_ORG = <<>>

\* a configuration file: yaml is "mapping", "null" (empty document) or
\* "invalid" (yaml.safe_load raises); fields are the keys of a mapping
ConfigFile(exists, yaml, fields, values) ==
    [exists |-> exists, yaml |-> yaml, fields |-> fields, values |-> values]

\* a file holding a mapping with all ten fields
CompleteFile(values) == ConfigFile(TRUE, "mapping", RequiredConfigFields, values)

BrokenFiles ==
    {ConfigFile(FALSE, "invalid", {}, EmptyDict),
     ConfigFile(TRUE, "invalid", {}, EmptyDict),
     ConfigFile(TRUE, "null", {}, EmptyDict)}
    \cup {ConfigFile(TRUE, "mapping", RequiredConfigFields \ {f}, EmptyDict) :
             f \in RequiredConfigFields}

\* load_project_config ends the process: no file, a YAML error or a None
\* document (both caught by except Exception), or a missing required field
LoadProjectConfigExits(file) ==
    \/ ~file.exists
    \/ file.yaml = "invalid"
    \/ file.yaml = "null"
    \/ \E field \in RequiredConfigFields : field \notin file.fields

\* the configuration the parser is called with
ParseConfig ==
    [table_header |-> TableHeader,
     required_sections |-> <<>>,
     min_feature_count |-> 1,
     expected_features |-> EmptyDict,
     expected_authors |-> EmptyDict,
     expected_messages |-> EmptyDict,
     expected_dates |-> EmptyDict]

\* the run at the call of parse_feature_table, for every document of ParseDocs
InitParse ==
    /\ environment = GoodEnvironment
    /\ config_file = CompleteFile(ParseConfig)
    /\ exit_code = <<>>
    /\ config = ParseConfig
    /\ pc = "step3"
    /\ doc_content \in ParseDocs \ {<<>>}
    /\ lines = Lines(doc_content)
    /\ in_table = FALSE
    /\ pos = 0
    /\ features = <<>>
    /\ origin = <<>>
    /\ idx = 0
    /\ commit_detail = NoDetail
    /\ requests = <<FileRequest([status |-> "200", content |-> doc_content])>>
    /\ trace = <<Checked(1, "fetched", TRUE), Checked(2, "sections", TRUE)>>
    /\ result = "None"

NextParse == ParseLine \/ ParseReturn

SpecParse == InitParse /\ [][NextParse]_vars

\* a line of dashes only
BareDashes == <<"-", "-">>

\* a separator row with a colon in every cell and no blanks
ColonSeparator ==
    Row(<<<<":", "-">>, <<":", "-">>, <<":", "-">>, <<":", "-">>, <<":", "-">>,
          <<":", "-">>, <<"-", ":">>>>)

\* a separator row with blanks and fewer than seven cells
ShortSpacedSeparator == PaddedRow(<<<<"-">>, <<"-">>, <<"-">>>>)

\* the lines of the separator documents
SeparatorPool ==
    { HeaderRow, PlainSeparator, BareDashes, SpacedSeparator, ColonSeparator,
      ShortSpacedSeparator, DataRow(<<"a">>, <<"s">>, <<"x">>, DateGood) }

\* every document of at most MaxLines lines of the separator pool
SeparatorDocs == {JoinLines(ls) : ls \in SeqsUpTo(SeparatorPool, MaxLines) \ {<<>>}}

\* the run at the call of parse_feature_table, for every document of SeparatorDocs
InitSeparators ==
    /\ environment = GoodEnvironment
    /\ config_file = CompleteFile(ParseConfig)
    /\ exit_code = <<>>
    /\ config = ParseConfig
    /\ pc = "step3"
    /\ doc_content \in SeparatorDocs
    /\ lines = Lines(doc_content)
    /\ in_table = FALSE
    /\ pos = 0
    /\ features = <<>>
    /\ origin = <<>>
    /\ idx = 0
    /\ commit_detail = NoDetail
    /\ requests = <<FileRequest([status |-> "200", content |-> doc_content])>>
    /\ trace = <<Checked(1, "fetched", TRUE), Checked(2, "sections", TRUE)>>
    /\ result = "None"

SpecSeparators == InitSeparators /\ [][NextParse]_vars

-----------------------------------------------------------------------------
(* The remote fetcher: fetch_github_file and verify_commit *)

\* fetch_github_file: the text of a 200 response, None otherwise
FetchGithubFile(resp) ==
    IF resp.status = "200" THEN resp.content ELSE NoneStr

\* verify_commit: the JSON body of a 200 response, None otherwise
VerifyCommit(resp) ==
    IF resp.status = "200" THEN resp.body ELSE NoDetail

\* not doc_content
NoContent(content) == content = NoneStr \/ content = <<>>

Absent == [kind |-> "absent"]

Null == [kind |-> "null"]

AuthorObject(login) == [kind |-> "dict", login |-> login]

CommitObject(message) == [kind |-> "dict", message |-> message]

\* a JSON object; other_keys: it has keys besides "author" and "commit"
CommitBody(author, commit, other_keys) ==
    [kind |-> "dict", author |-> author, commit |-> commit, other_keys |-> other_keys]

\* mutant: only the empty dict counts as a failed fetch
NoCommitDetailOnlyEmpty(detail) ==
    /\ detail.kind = "dict"
    /\ ~detail.other_keys
    /\ detail.author = Absent
    /\ detail.commit = Absent

\* not commit_detail: None or the empty dict
NoCommitDetail(detail) ==
    \/ detail.kind = "None"
    \/ /\ detail.kind = "dict"
       /\ ~detail.other_keys
       /\ detail.author = Absent
       /\ detail.commit = Absent

\* commit_detail.get("author", {}).get("login", "") raises on a null author
AuthorRaises(detail) == detail.kind = "None" \/ detail.author = Null

\* commit_detail.get("author", {}).get("login", "")
ActualAuthor(detail) ==
    IF detail.author.kind = "dict" THEN detail.author.login ELSE <<>>

\* commit_detail.get("commit", {}).get("message", "") raises on a null commit
MessageRaises(detail) == detail.kind = "None" \/ detail.commit = Null

\* commit_detail.get("commit", {}).get("message", "").split("\n")[0]
ActualCommitMsg(detail) ==
    IF detail.commit.kind = "dict" THEN FirstLine(detail.commit.message)
    ELSE <<>>

-----------------------------------------------------------------------------
(* The inputs of a run *)

SectionPresent == <<"O">>

SectionMissing == <<"Z">>

\* the rows the documents of a run are drawn from
\* a data row with a blank cell between the name and the sha
GappedRow(name, sha, message, date) ==
    Row(<<name, <<" ">>, sha, <<"w">>, <<"m">>, date, <<"3">>, message>>)

RunRows ==
    { DataRow(<<"a">>, <<"s">>, <<"x">>, DateGood),
      GappedRow(<<"b">>, <<"t">>, <<"x">>, DateNoCalendar),
      DataRow(<<"a">>, <<"t">>, <<"y">>, DateGood),
      DataRow(<<"b">>, <<"s">>, <<"x">>, DateShort) }

\* a document: a line of text, the table of at most MaxRows rows, a heading
RunDocs ==
    { JoinLines(<<SectionPresent, HeaderRow, PlainSeparator>> \o rows \o <<EndHeading>>) :
        rows \in SeqsUpTo(RunRows, MaxRows) }

\* what the contents endpoint can answer
FileResponses ==
    {[status |-> "200", content |-> d] : d \in RunDocs \cup {<<>>, NoneStr}}
    \cup {[status |-> st, content |-> NoneStr] : st \in {"404", "500", "exception"}}

LiveMessages == { <<"x", "\n", "l">>, <<"y">> }

\* what the commits endpoint can answer
CommitResponses ==
    {[status |-> "200", body |-> CommitBody(a, c, TRUE)] :
        a \in {Absent, Null, AuthorObject(<<"u">>), AuthorObject(<<"v">>)},
        c \in {Null} \cup {CommitObject(m) : m \in LiveMessages}}
    \cup {[status |-> "200", body |-> CommitBody(Absent, Absent, FALSE)]}
    \cup {[status |-> st, body |-> NoDetail] : st \in {"404", "500", "exception"}}

Configs ==
    { [table_header |-> TableHeader,
       required_sections |-> secs,
       min_feature_count |-> n,
       expected_features |-> ef,
       expected_authors |-> ea,
       expected_messages |-> em,
       expected_dates |-> ed] :
        secs \in {<<SectionPresent>>, <<SectionPresent, SectionMissing>>},
        n \in 1..MaxMinCount,
        ef \in { EmptyDict,
                 [k \in {<<"a">>} |-> <<"s">>],
                 [k \in {<<"A">>} |-> <<"s">>],
                 [k \in {<<"a">>, <<"b">>} |->
                     IF k = <<"a">> THEN <<"s">> ELSE <<"t">>] },
        ea \in { EmptyDict,
                 [k \in {<<"s">>} |-> <<"u">>],
                 [k \in {<<"s">>, <<"t">>} |-> <<"u">>] },
        em \in { [k \in {<<"s">>, <<"t">>} |-> <<"x">>],
                 [k \in {<<"s">>} |-> <<"x">>] },
        ed \in { [k \in {<<"s">>, <<"t">>} |->
                     IF k = <<"s">> THEN DateGood ELSE DateNoCalendar],
                 [k \in {<<"s">>} |-> DateShort] } }

-----------------------------------------------------------------------------
(* run_verification *)

\* mutant: only the first required section is looked for
SectionsPresentFirstOnly(content, sections) ==
    sections # <<>> => Contains(content, sections[1])

\* for section in required_sections: if section not in doc_content: return False
SectionsPresent(content, sections) ==
    \A i \in 1..Len(sections) : Contains(content, sections[i])

\* mutant: the comparison is off by one
CountReachedOffByOne(feats, min_feat_count) == ~(Len(feats) + 1 < min_feat_count)

\* if len(features) < min_feat_count: return False
CountReached(feats, min_feat_count) == ~(Len(feats) < min_feat_count)

\* mutant: the first record of a name is kept, not the last
FeatNameToShaFirstWins(feats) ==
    [n \in {feats[k].name : k \in 1..Len(feats)} |->
        LET first == CHOOSE k \in 1..Len(feats) :
                         /\ feats[k].name = n
                         /\ \A j \in 1..(k - 1) : feats[j].name # n
        IN  feats[first].sha]

\* feat_name_to_sha = {feat["name"]: feat["sha"] for feat in features}
FeatNameToSha(feats) ==
    [n \in {feats[k].name : k \in 1..Len(feats)} |->
        LET last == CHOOSE k \in 1..Len(feats) :
                        /\ feats[k].name = n
                        /\ \A j \in (k + 1)..Len(feats) : feats[j].name # n
        IN  feats[last].sha]

\* mutant: the sha comparison is left out
FeaturesMatchNameOnly(feats, expected_feats) ==
    \A n \in DOMAIN expected_feats : \E k \in 1..Len(feats) : feats[k].name = n

\* mutant: names are compared without regard to case
FeaturesMatchIgnoreCase(feats, expected_feats) ==
    LET lower(c) == IF c = "A" THEN "a" ELSE IF c = "B" THEN "b" ELSE c
        fold(str) == [i \in 1..Len(str) |-> lower(str[i])]
    IN  \A n \in DOMAIN expected_feats :
            \E k \in 1..Len(feats) :
                /\ fold(feats[k].name) = fold(n)
                /\ \A j \in (k + 1)..Len(feats) : fold(feats[j].name) # fold(n)
                /\ feats[k].sha = expected_feats[n]

\* the loop of step 5 finds no missing name and no differing sha
FeaturesMatch(feats, expected_feats) ==
    \A n \in DOMAIN expected_feats :
        /\ n \in DOMAIN FeatNameToSha(feats)
        /\ FeatNameToSha(feats)[n] = expected_feats[n]

\* if feat_sha not in expected_authors: continue
\* mutant: every record is taken for a configured commit
IsExpectedCommitAlways(feat, expected_authors) == TRUE

IsExpectedCommit(feat, expected_authors) == feat.sha \in DOMAIN expected_authors

\* the loop of step 7 finds no empty key field
KeyFieldsFilled(feats) ==
    \A k \in 1..Len(feats) :
        feats[k].name # <<>> /\ feats[k].sha # <<>> /\ feats[k].author # <<>>

\* the state a check leaves: on to the next position, or return False
Verdict(ok, step, check, next) ==
    /\ trace' = Append(trace, Checked(step, check, ok))
    /\ pc' = IF ok THEN next ELSE "done"
    /\ result' = IF ok THEN result ELSE "False"

\* an exception nobody catches ends run_verification without a verdict
Raise ==
    /\ pc' = "done"
    /\ result' = "Error"
    /\ trace' = trace

\* mutant: the date is compared with the expected one before its shape is checked
AfterCheckEqualityFirst(check) ==
    CASE check = "commit"        -> "step6_author"
      [] check = "author"        -> "step6_table_message"
      [] check = "table_message" -> "step6_live_message"
      [] check = "live_message"  -> "step6_date_equal"
      [] check = "date_equal"    -> "step6_date_format"
      [] check = "date_format"   -> "step6"

\* the statement reached in the loop body of step 6 when a check has passed
AfterCheck(check) ==
    CASE check = "commit"        -> "step6_author"
      [] check = "author"        -> "step6_table_message"
      [] check = "table_message" -> "step6_live_message"
      [] check = "live_message"  -> "step6_date_format"
      [] check = "date_format"   -> "step6_date_equal"
      [] check = "date_equal"    -> "step6"

\* step 1: doc_content = fetch_github_file(...); if not doc_content: return False
FetchDocument ==
    /\ pc = "step1"
    /\ \E resp \in FileResponses :
        /\ doc_content' = FetchGithubFile(resp)
        /\ requests' = Append(requests, FileRequest(resp))
        /\ Verdict(~NoContent(FetchGithubFile(resp)), 1, "fetched", "step2")
    /\ UNCHANGED <<startup, config, lines, in_table, pos, features, origin, idx, commit_detail>>

\* step 2: every required section is in the document
CheckSections ==
    /\ pc = "step2"
    /\ Verdict(SectionsPresent(doc_content, config.required_sections),
               2, "sections", "step3_call")
    /\ UNCHANGED <<startup, config, doc_content, lines, in_table, pos, features, origin, idx,
                   commit_detail, requests>>

\* step 3: parse_feature_table(doc_content, table_header) is called
ParseCall ==
    /\ pc = "step3_call"
    /\ lines' = Lines(doc_content)
    /\ in_table' = FALSE
    /\ features' = <<>>
    /\ origin' = <<>>
    /\ pos' = 0
    /\ pc' = "step3"
    /\ UNCHANGED <<startup, config, doc_content, idx, commit_detail, requests, trace, result>>

\* step 4: the count check
CheckCount ==
    /\ pc = "step4"
    /\ Verdict(CountReached(features, config.min_feature_count), 4, "count", "step5")
    /\ UNCHANGED <<startup, config, doc_content, lines, in_table, pos, features, origin, idx,
                   commit_detail, requests>>

\* step 5: the name/sha check; then step 6's loop starts at the first record
CheckFeatures ==
    /\ pc = "step5"
    /\ Verdict(FeaturesMatch(features, config.expected_features), 5, "features", "step6")
    /\ idx' = 1
    /\ UNCHANGED <<startup, config, doc_content, lines, in_table, pos, features, origin,
                   commit_detail, requests>>

\* step 6: a record whose sha is no key of expected_authors is passed over
SkipRecord ==
    /\ pc = "step6"
    /\ idx <= Len(features)
    /\ ~IsExpectedCommit(features[idx], config.expected_authors)
    /\ idx' = idx + 1
    /\ UNCHANGED <<startup, config, pc, doc_content, lines, in_table, pos, features, origin,
                   commit_detail, requests, trace, result>>

\* step 6: commit_detail = verify_commit(feat_sha, ...); if not commit_detail: return False
FetchCommit ==
    /\ pc = "step6"
    /\ idx <= Len(features)
    /\ IsExpectedCommit(features[idx], config.expected_authors)
    /\ \E resp \in CommitResponses :
        /\ commit_detail' = VerifyCommit(resp)
        /\ requests' = Append(requests, CommitRequest(features[idx].sha, idx, resp))
        /\ Verdict(~NoCommitDetail(VerifyCommit(resp)), 6, "commit", AfterCheck("commit"))
    /\ UNCHANGED <<startup, config, doc_content, lines, in_table, pos, features, origin, idx>>

\* step 6: the live author login against expected_authors[sha]
CheckAuthor ==
    /\ pc = "step6_author"
    /\ IF AuthorRaises(commit_detail)
       THEN Raise
       ELSE Verdict(ActualAuthor(commit_detail) = config.expected_authors[features[idx].sha],
                    6, "author", AfterCheck("author"))
    /\ UNCHANGED <<startup, config, doc_content, lines, in_table, pos, features, origin, idx,
                   commit_detail, requests>>

\* step 6: expected_msgs[feat_sha], then the table's message against it
CheckTableMessage ==
    /\ pc = "step6_table_message"
    /\ IF features[idx].sha \notin DOMAIN config.expected_messages
       THEN Raise
       ELSE Verdict(features[idx].message = config.expected_messages[features[idx].sha],
                    6, "table_message", AfterCheck("table_message"))
    /\ UNCHANGED <<startup, config, doc_content, lines, in_table, pos, features, origin, idx,
                   commit_detail, requests>>

\* step 6: the first line of the live message against expected_msgs[feat_sha]
CheckLiveMessage ==
    /\ pc = "step6_live_message"
    /\ IF MessageRaises(commit_detail)
       THEN Raise
       ELSE Verdict(ActualCommitMsg(commit_detail)
                        = config.expected_messages[features[idx].sha],
                    6, "live_message", AfterCheck("live_message"))
    /\ UNCHANGED <<startup, config, doc_content, lines, in_table, pos, features, origin, idx,
                   commit_detail, requests>>

\* step 6: expected_dates[feat_sha], then the date's shape
CheckDateFormat ==
    /\ pc = "step6_date_format"
    /\ IF features[idx].sha \notin DOMAIN config.expected_dates
       THEN Raise
       ELSE Verdict(MatchesDatePattern(features[idx].date),
                    6, "date_format", AfterCheck("date_format"))
    /\ UNCHANGED <<startup, config, doc_content, lines, in_table, pos, features, origin, idx,
                   commit_detail, requests>>

\* step 6: the date against expected_dates[feat_sha]; then the next record
CheckDateEqual ==
    /\ pc = "step6_date_equal"
    /\ Verdict(features[idx].date = config.expected_dates[features[idx].sha],
               6, "date_equal", AfterCheck("date_equal"))
    /\ idx' = idx + 1
    /\ UNCHANGED <<startup, config, doc_content, lines, in_table, pos, features, origin,
                   commit_detail, requests>>

\* step 7, after the loop of step 6: the structural check; then return True
CheckKeyFields ==
    /\ pc = "step6"
    /\ idx > Len(features)
    /\ trace' = Append(trace, Checked(7, "key_fields", KeyFieldsFilled(features)))
    /\ pc' = "done"
    /\ result' = IF KeyFieldsFilled(features) THEN "True" ELSE "False"
    /\ UNCHANGED <<startup, config, doc_content, lines, in_table, pos, features, origin, idx,
                   commit_detail, requests>>

\* run_verification is called with a configuration that has the ten fields
Init ==
    /\ environment = GoodEnvironment
    /\ config \in Configs
    /\ config_file = CompleteFile(config)
    /\ exit_code = <<>>
    /\ pc = "step1"
    /\ doc_content = NoneStr
    /\ lines = <<>>
    /\ in_table = FALSE
    /\ pos = 0
    /\ features = <<>>
    /\ origin = <<>>
    /\ idx = 0
    /\ commit_detail = NoDetail
    /\ requests = <<>>
    /\ trace = <<>>
    /\ result = "None"

Next ==
    \/ FetchDocument
    \/ CheckSections
    \/ ParseCall
    \/ ParseLine
    \/ ParseReturn
    \/ CheckCount
    \/ CheckFeatures
    \/ SkipRecord
    \/ FetchCommit
    \/ CheckAuthor
    \/ CheckTableMessage
    \/ CheckLiveMessage
    \/ CheckDateFormat
    \/ CheckDateEqual
    \/ CheckKeyFields

Spec == Init /\ [][Next]_vars

-----------------------------------------------------------------------------
(* main *)

\* the process has started: nothing is loaded, nothing has run
InitMain ==
    /\ environment \in Environments
    /\ config_file \in BrokenFiles \cup {CompleteFile(c) : c \in Configs}
    /\ exit_code = <<>>
    /\ config = EmptyDict
    /\ pc = "main_env"
    /\ doc_content = NoneStr
    /\ lines = <<>>
    /\ in_table = FALSE
    /\ pos = 0
    /\ features = <<>>
    /\ origin = <<>>
    /\ idx = 0
    /\ commit_detail = NoDetail
    /\ requests = <<>>
    /\ trace = <<>>
    /\ result = "None"

\* mutant: the exit status is 0 whatever the verdict
ExitCodeAlwaysZero(verification_result) == 0

\* sys.exit(0 if verification_result else 1)
ExitCode(verification_result) == IF verification_result = "True" THEN 0 ELSE 1

\* github_token, github_org = load_environment(args.env)
LoadEnvironment ==
    /\ pc = "main_env"
    /\ IF LoadEnvironmentExits(environment)
       THEN pc' = "exited" /\ exit_code' = <<1>>
       ELSE pc' = "main_config" /\ exit_code' = exit_code
    /\ UNCHANGED <<environment, config_file, config, doc_content, lines, in_table, pos,
                   features, origin, idx, commit_detail, requests, trace, result>>

\* project_config = load_project_config(args.config); then run_verification is called
LoadProjectConfig ==
    /\ pc = "main_config"
    /\ IF LoadProjectConfigExits(config_file)
       THEN pc' = "exited" /\ exit_code' = <<1>> /\ config' = config
       ELSE pc' = "step1" /\ exit_code' = exit_code /\ config' = config_file.values
    /\ UNCHANGED <<environment, config_file, doc_content, lines, in_table, pos,
                   features, origin, idx, commit_detail, requests, trace, result>>

\* run_verification returned: sys.exit(0 if verification_result else 1)
SysExit ==
    /\ pc = "done"
    /\ result \in {"True", "False"}
    /\ pc' = "exited"
    /\ exit_code' = <<ExitCode(result)>>
    /\ UNCHANGED <<environment, config_file, config, doc_content, lines, in_table, pos,
                   features, origin, idx, commit_detail, requests, trace, result>>

\* an exception left run_verification and main: the interpreter prints the
\* traceback and ends the process with status 1
UncaughtException ==
    /\ pc = "done"
    /\ result = "Error"
    /\ pc' = "exited"
    /\ exit_code' = <<1>>
    /\ UNCHANGED <<environment, config_file, config, doc_content, lines, in_table, pos,
                   features, origin, idx, commit_detail, requests, trace, result>>

NextMain ==
    \/ LoadEnvironment
    \/ LoadProjectConfig
    \/ Next
    \/ SysExit
    \/ UncaughtException

SpecMain == InitMain /\ [][NextMain]_vars

-----------------------------------------------------------------------------
(* Properties of run_verification *)

Returned == pc = "done"

\* 4 digits, "-", 2 digits, "-", 2 digits
IsYearMonthDay(s) ==
    /\ Len(s) = 10
    /\ \A i \in 1..10 : IF i \in {5, 8} THEN s[i] = "-" ELSE s[i] \in Digit

\* the requests of kind k, in the order they were issued
RequestsOf(k) == SelectSeq(requests, LAMBDA r : r.kind = k)

\* record k was verified against the live commit and the configuration
RecordVerified(k) ==
    \E i \in 1..Len(requests) :
        LET r == requests[i]
            sha == features[k].sha
        IN  /\ r.kind = "commit" /\ r.rec = k /\ r.sha = sha
            /\ r.status = "200"
            /\ r.body.author.kind = "dict"
            /\ r.body.author.login = config.expected_authors[sha]
            /\ sha \in DOMAIN config.expected_messages
            /\ features[k].message = config.expected_messages[sha]
            /\ r.body.commit.kind = "dict"
            /\ Split(r.body.commit.message, "\n")[1] = config.expected_messages[sha]
            /\ sha \in DOMAIN config.expected_dates
            /\ IsYearMonthDay(features[k].date)
            /\ features[k].date = config.expected_dates[sha]

\* C1: run_verification returns true only if all seven steps passed in the run:
\* the document fetch gave non-empty content, every required section is a
\* substring of it, the parser produced at least one and at least
\* min_feature_count records, every (name, sha) of expected_features is matched
\* by a parsed record, every record whose sha is a key of expected_authors had a
\* successful commit fetch with matching live author, table message, live
\* first-line message and a well-shaped, matching date, and every record has
\* non-empty name, sha and author.
C1_TrueOnlyIfAllStepsPassed ==
    (Returned /\ result = "True") =>
        /\ Len(RequestsOf("file")) = 1
        /\ RequestsOf("file")[1].status = "200"
        /\ doc_content # NoneStr /\ Len(doc_content) > 0
        /\ \A i \in 1..Len(config.required_sections) :
              Contains(doc_content, config.required_sections[i])
        /\ Len(features) >= 1
        /\ Len(features) >= config.min_feature_count
        /\ \A n \in DOMAIN config.expected_features :
              \E k \in 1..Len(features) :
                  /\ features[k].name = n
                  /\ features[k].sha = config.expected_features[n]
        /\ \A k \in 1..Len(features) :
              features[k].sha \in DOMAIN config.expected_authors => RecordVerified(k)
        /\ \A k \in 1..Len(features) :
              /\ Len(features[k].name) > 0
              /\ Len(features[k].sha) > 0
              /\ Len(features[k].author) > 0

\* a run returned true after verifying the commits of two records
C1_Witness ==
    /\ Returned /\ result = "True"
    /\ Len(RequestsOf("commit")) = 2
    /\ DOMAIN config.expected_features # {}

\* the checks of step s that were evaluated
StepEntries(s) == {i \in 1..Len(trace) : trace[i].step = s}

\* parse_feature_table has been called
ParserInvoked == lines # <<>> \/ pc \in {"step3", "step3_break"}

\* C2: the seven steps are evaluated in the order 1..7 and evaluation stops at
\* the first failing step with verdict false; when a required section is not a
\* substring of the document the run returns false at step 2 and the parser is
\* never invoked.
C2_StepsInOrderFailFast ==
    /\ \A i \in 1..Len(trace) : \A j \in (i + 1)..Len(trace) :
          trace[i].ok /\ trace[i].step <= trace[j].step
    /\ \A j \in 1..Len(trace) : \A s \in 1..5 :
          s < trace[j].step => \E i \in 1..(j - 1) : trace[i].step = s
    /\ (\E i \in 1..Len(trace) : ~trace[i].ok) => (Returned /\ result = "False")
    /\ ParserInvoked =>
          \A i \in 1..Len(config.required_sections) :
              Contains(doc_content, config.required_sections[i])
    /\ (Returned /\ doc_content # NoneStr /\ doc_content # <<>>
          /\ \E i \in 1..Len(config.required_sections) :
                ~Contains(doc_content, config.required_sections[i]))
       => (result = "False" /\ trace[Len(trace)].step = 2 /\ features = <<>>)

\* a run that returned false at step 2: a section is missing, nothing was parsed
C2_Witness ==
    /\ Returned /\ result = "False"
    /\ Len(trace) = 2 /\ ~trace[2].ok
    /\ \E i \in 1..Len(config.required_sections) :
          ~Contains(doc_content, config.required_sections[i])
    /\ Contains(doc_content, DataRow(<<"a">>, <<"s">>, <<"x">>, DateGood))
    /\ ~ParserInvoked

\* C3: a commit-metadata fetch is issued only after steps 1 to 5 have all
\* passed; when the parser yields fewer records than min_feature_count the run
\* returns false at step 4 and no commit fetch is issued.
C3_CommitFetchOnlyAfterStep5 ==
    /\ RequestsOf("commit") # <<>> =>
          /\ \A s \in 1..5 : \E i \in StepEntries(s) : trace[i].ok
          /\ Len(features) >= config.min_feature_count
          /\ \A n \in DOMAIN config.expected_features :
                \E k \in 1..Len(features) :
                    /\ features[k].name = n
                    /\ features[k].sha = config.expected_features[n]
    /\ (Returned /\ 0 < Len(features) /\ Len(features) < config.min_feature_count) =>
          /\ result = "False"
          /\ trace[Len(trace)] = Checked(4, "count", FALSE)
          /\ RequestsOf("commit") = <<>>

\* a run that returned false at step 4 although a parsed record's sha is a key
\* of expected_authors
C3_Witness ==
    /\ Returned /\ result = "False"
    /\ 0 < Len(features) /\ Len(features) < config.min_feature_count
    /\ features[1].sha \in DOMAIN config.expected_authors
    /\ RequestsOf("commit") = <<>>

\* C4: for every configuration with the ten fields and every response of the
\* remote fetcher, run_verification ends by returning true or false, never in
\* an uncaught error.
C4_AlwaysBooleanVerdict == Returned => result \in {"True", "False"}

\* a request that brought nothing back: no content, not found, or an error
FetchFailed(r) == r.status # "200" \/ ~r.has_data

\* C5: a fetch failure is terminal: after the failed fetch the run issues no
\* further request and the verdict is false.
C5_FetchFailureTerminal ==
    \A i \in 1..Len(requests) :
        FetchFailed(requests[i]) =>
            /\ i = Len(requests)
            /\ Returned
            /\ result = "False"

\* the commit of the second record is not found, after the first was verified
C5_Witness ==
    /\ Len(requests) = 3
    /\ requests[3].kind = "commit" /\ requests[3].status = "404"
    /\ Returned

-----------------------------------------------------------------------------
(* Properties of parse_feature_table *)

\* the scan of the document is over
ParseOver == pc \notin {"step3_call", "step3"}

HasMarker(line) == Contains(line, config.table_header)

\* some line before line i contains the header marker
InsideAt(i) == \E j \in 1..(i - 1) : HasMarker(lines[j])

OnlyDashesAndPipes(line) == \A i \in 1..Len(line) : line[i] \in {"-", "|"}

\* the cells of a line: split on "|", stripped, the empty ones dropped
CellsOf(line) == SelectSeq(StripAll(Split(line, "|")), LAMBDA c : c # <<>>)

\* the first seven cells, by position
RecordOf(cells) ==
    [name |-> cells[1], sha |-> cells[2], author |-> cells[3], branch |-> cells[4],
     date |-> cells[5], files_changed |-> cells[6], message |-> cells[7]]

\* the records that came from line i
RecordsFrom(i) == {k \in 1..Len(origin) : origin[k] = i}

\* a markdown separator row: every cell is dashes, with or without colons
IsSeparatorRow(line) ==
    /\ StartsWith(line, "|")
    /\ CellsOf(line) # <<>>
    /\ \A k \in 1..Len(CellsOf(line)) :
          /\ \A i \in 1..Len(CellsOf(line)[k]) : CellsOf(line)[k][i] \in {"-", ":"}
          /\ \E i \in 1..Len(CellsOf(line)[k]) : CellsOf(line)[k][i] = "-"

\* a data row: starts with "|", at least 7 non-empty cells
IsDataRow(line) ==
    /\ StartsWith(line, "|")
    /\ Len(CellsOf(line)) >= MinCells
    /\ ~IsSeparatorRow(line)
    /\ ~HasMarker(line)

\* header line, separator row, data rows, terminating "##" line
WellFormedBlock ==
    /\ Len(lines) >= 3
    /\ HasMarker(lines[1])
    /\ IsSeparatorRow(lines[2])
    /\ \A i \in 3..(Len(lines) - 1) : IsDataRow(lines[i])
    /\ lines[Len(lines)] # <<>>
    /\ ~StartsWith(lines[Len(lines)], "|")
    /\ Contains(lines[Len(lines)], <<"#", "#">>)

\* C6: for every well-formed table block (header line, separator row written
\* with or without spaces or colons, n data rows of at least 7 cells, a
\* terminating "##" line) the parser returns exactly n records.
C6_WellFormedBlockCount ==
    (ParseOver /\ WellFormedBlock) => Len(features) = Len(lines) - 3

\* what C7 says of scanned line i
LineYieldsItsRecord(i) ==
    IF Len(CellsOf(lines[i])) >= MinCells
    THEN /\ Cardinality(RecordsFrom(i)) = 1
         /\ \A k \in RecordsFrom(i) : features[k] = RecordOf(CellsOf(lines[i]))
    ELSE RecordsFrom(i) = {}

\* C7 as stated: inside the table, every line starting with "|" yields exactly
\* one record of its first seven non-empty cells when it has at least 7, and
\* no record otherwise.
C7_EveryPipeLineParsed ==
    /\ Len(origin) = Len(features)
    /\ \A i \in 1..pos :
          (InsideAt(i) /\ StartsWith(lines[i], "|")) => LineYieldsItsRecord(i)

\* C7, amended: inside the table, every line starting with "|" that does not
\* contain the header marker and is not made of "-" and "|" alone yields
\* exactly one record of its first seven non-empty cells when it has at least
\* 7 (the padded 8-cell row yields b, t, w, m, 2024-13-45, 3, x), and no record
\* otherwise.
C7_DataLineParsed ==
    /\ Len(origin) = Len(features)
    /\ \A i \in 1..pos :
          (/\ InsideAt(i)
           /\ StartsWith(lines[i], "|")
           /\ ~HasMarker(lines[i])
           /\ ~OnlyDashesAndPipes(lines[i])) => LineYieldsItsRecord(i)
    /\ \A k \in 1..Len(features) :
          lines[origin[k]] = Strip(WideRow) =>
              features[k] = [name |-> <<"b">>, sha |-> <<"t">>, author |-> <<"w">>,
                             branch |-> <<"m">>, date |-> DateNoCalendar,
                             files_changed |-> <<"3">>, message |-> <<"x">>]

\* inside the table the 8-cell row gave its record and the 6-cell row gave none
C7_Witness ==
    /\ ParseOver
    /\ \E i, j \in 1..pos :
          /\ InsideAt(i) /\ lines[i] = Strip(WideRow) /\ RecordsFrom(i) # {}
          /\ InsideAt(j) /\ lines[j] = ShortRow /\ RecordsFrom(j) = {}

\* what C8 says of line e, once it is taken to end the table
ScanEndsAt(e) ==
    /\ pos <= e
    /\ \A k \in 1..Len(origin) : origin[k] < e

\* C8 as stated: inside the table, the first non-empty line that does not
\* start with "|" and contains "##" ends the scan; no later line contributes.
C8_HashLineEndsScan ==
    \A e \in 1..Len(lines) :
        (/\ InsideAt(e)
         /\ lines[e] # <<>>
         /\ ~StartsWith(lines[e], "|")
         /\ Contains(lines[e], <<"#", "#">>)) => ScanEndsAt(e)

\* C8, amended: inside the table, the first non-empty line that does not
\* contain the header marker, does not start with "|" and contains "##" ends
\* the scan; no later line contributes a record.
C8_HashLineWithoutMarkerEndsScan ==
    \A e \in 1..Len(lines) :
        (/\ InsideAt(e)
         /\ ~HasMarker(lines[e])
         /\ lines[e] # <<>>
         /\ ~StartsWith(lines[e], "|")
         /\ Contains(lines[e], <<"#", "#">>)) => ScanEndsAt(e)

\* the scan ended at line 2; the header and the valid row after it gave nothing
C8_Witness ==
    /\ ParseOver
    /\ Len(lines) = 4
    /\ lines[1] = HeaderRow /\ lines[2] = EndHeading
    /\ lines[3] = HeaderRow /\ IsDataRow(lines[4])
    /\ pos = 2
    /\ features = <<>>

\* C9: when no line contains the header marker the parser returns the empty
\* sequence; while the flag is false no line produces a record.
C9_NoRecordBeforeHeader ==
    /\ (\A j \in 1..Len(lines) : ~HasMarker(lines[j])) => features = <<>>
    /\ ~in_table => features = <<>>
    /\ in_table = (\E j \in 1..pos : HasMarker(lines[j]))
    /\ \A k \in 1..Len(origin) : InsideAt(origin[k])

\* a document without the marker, with valid rows, was scanned to its end
C9_Witness ==
    /\ ParseOver
    /\ pos = Len(lines)
    /\ \A j \in 1..Len(lines) : ~HasMarker(lines[j])
    /\ \E i, j \in 1..Len(lines) : lines[i] = Strip(WideRow) /\ IsDataRow(lines[j]) /\ i < j
    /\ features = <<>>

\* the scanned lines that qualify as data rows
QualifyingRows ==
    {i \in 1..pos : /\ InsideAt(i)
                    /\ ~OnlyDashesAndPipes(lines[i])
                    /\ StartsWith(lines[i], "|")
                    /\ ~HasMarker(lines[i])
                    /\ Len(CellsOf(lines[i])) >= MinCells}

\* C10: the parser keeps document row order and does not deduplicate: the i-th
\* record comes from the i-th qualifying row, and rows with the same name or
\* sha each produce their own record.
C10_OrderKeptNoDedup ==
    /\ Len(origin) = Len(features)
    /\ \A k \in 1..Len(features) : \A m \in (k + 1)..Len(features) :
          origin[k] < origin[m]
    /\ {origin[k] : k \in 1..Len(origin)} = QualifyingRows
    /\ \A k \in 1..Len(features) : features[k] = RecordOf(CellsOf(lines[origin[k]]))

\* three records in row order, the first and the third from identical rows
C10_Witness ==
    /\ ParseOver
    /\ Len(features) = 3
    /\ features[1] = features[3]
    /\ features[2] # features[1]
    /\ features[1].name = <<"a">>

-----------------------------------------------------------------------------
(* Properties of steps 5 to 7 *)

\* the parsed records named n
RecordsNamed(n) == {k \in 1..Len(features) : features[k].name = n}

\* the last parsed record named n carries the sha expected for n
LastNamedHasSha(n) ==
    \E k \in RecordsNamed(n) :
        /\ \A j \in RecordsNamed(n) : j <= k
        /\ features[k].sha = config.expected_features[n]

\* C11 as stated: a pair (n, s) of expected_features passes step 5 if some
\* parsed record has name n and sha s; step 5 fails and the run returns false
\* if no record has name n or a record named n carries a different sha.
C11_AnyRecordDecidesStep5 ==
    \A i \in StepEntries(5) :
        /\ (\A n \in DOMAIN config.expected_features :
               \E k \in RecordsNamed(n) : features[k].sha = config.expected_features[n])
           => trace[i].ok
        /\ (\E n \in DOMAIN config.expected_features :
               \/ RecordsNamed(n) = {}
               \/ \E k \in RecordsNamed(n) : features[k].sha # config.expected_features[n])
           => (~trace[i].ok /\ Returned /\ result = "False")

\* C11, amended: a pair (n, s) of expected_features passes step 5 if the last
\* parsed record named n has sha s; if no parsed record has name n, or the last
\* record named n carries a different sha, step 5 fails and the run returns
\* false. Names and shas are compared by exact, case-sensitive equality.
C11_LastRecordDecidesStep5 ==
    \A i \in StepEntries(5) :
        /\ trace[i].ok = (\A n \in DOMAIN config.expected_features : LastNamedHasSha(n))
        /\ ~trace[i].ok => (Returned /\ result = "False" /\ i = Len(trace))

\* step 5 passed for two expected pairs
C11_Witness ==
    /\ StepEntries(5) # {}
    /\ \A i \in StepEntries(5) : trace[i].ok
    /\ Cardinality(DOMAIN config.expected_features) = 2

\* C12: when several parsed records share a name n, step 5 compares
\* expected_features[n] only with the sha of the last of them: the pair passes
\* exactly when that record's sha is the expected one, whatever the earlier
\* records named n carry.
C12_DuplicateNameLastWins ==
    \A i \in StepEntries(5) : \A n \in DOMAIN config.expected_features :
        Cardinality(RecordsNamed(n)) >= 2 =>
            /\ trace[i].ok => LastNamedHasSha(n)
            /\ (LastNamedHasSha(n) /\ DOMAIN config.expected_features = {n}) => trace[i].ok

\* step 5 passed although the first of two records named a has another sha
C12_Witness ==
    /\ \E i \in StepEntries(5) : trace[i].ok
    /\ Len(features) = 2
    /\ features[1].name = <<"a">> /\ features[2].name = <<"a">>
    /\ <<"a">> \in DOMAIN config.expected_features
    /\ features[1].sha # config.expected_features[<<"a">>]

\* the run returned True
ReturnedTrue == Returned /\ result = "True"

\* C13 as stated: whenever the pipeline returns true, every parsed record's
\* date has the shape YYYY-MM-DD, whether or not its sha is configured.
C13_EveryRecordDateShaped ==
    ReturnedTrue => \A k \in 1..Len(features) : IsYearMonthDay(features[k].date)

\* C13, amended: whenever the pipeline returns true, the date of every parsed
\* record whose sha is a key of expected_authors has the shape YYYY-MM-DD.
C13_ConfiguredRecordDateShaped ==
    ReturnedTrue =>
        \A k \in 1..Len(features) :
            features[k].sha \in DOMAIN config.expected_authors
                => IsYearMonthDay(features[k].date)

\* a run returned True after the date checks of two configured records
C13_Witness ==
    /\ ReturnedTrue
    /\ Len(features) = 2
    /\ \A k \in 1..2 : features[k].sha \in DOMAIN config.expected_authors
    /\ features[1].date # features[2].date

\* the checks of step 6 on one record, in the order of the loop body
Step6Order == <<"commit", "author", "table_message", "live_message",
                "date_format", "date_equal">>

\* the place of a check in Step6Order
Step6Place(check) == CHOOSE p \in 1..Len(Step6Order) : Step6Order[p] = check

\* the record the last commit request was issued for
CheckedRecord == requests[Len(requests)].rec

\* the last check evaluated is the named check of step 6
LastCheckIs(check) ==
    /\ trace # <<>>
    /\ trace[Len(trace)].step = 6
    /\ trace[Len(trace)].check = check

\* C14: on a record whose sha is a key of expected_authors the checks of step
\* 6 are evaluated in the order commit fetch, live author, table message, live
\* first-line message, date format, date equality; each is evaluated only
\* after the one before it passed, and the first failing one ends the run
\* with false. A date not of the shape YYYY-MM-DD fails the format check even
\* when it equals expected_dates[sha], and the equality check is then never
\* evaluated.
C14_Step6ChecksInOrder ==
    /\ \A j \in StepEntries(6) :
        /\ j > 1
        /\ trace[j - 1].ok
        /\ IF Step6Place(trace[j].check) = 1
           THEN trace[j - 1].step = 5 \/ trace[j - 1].check = "date_equal"
           ELSE /\ trace[j - 1].step = 6
                /\ trace[j - 1].check = Step6Order[Step6Place(trace[j].check) - 1]
        /\ ~trace[j].ok => (j = Len(trace) /\ Returned /\ result = "False")
    /\ LastCheckIs("date_format") =>
        /\ features[CheckedRecord].sha \in DOMAIN config.expected_authors
        /\ ~IsYearMonthDay(features[CheckedRecord].date) => ~trace[Len(trace)].ok
    /\ LastCheckIs("date_equal") => IsYearMonthDay(features[CheckedRecord].date)

\* the format check failed on a date equal to the expected one
C14_Witness ==
    /\ LastCheckIs("date_format")
    /\ ~trace[Len(trace)].ok
    /\ features[CheckedRecord].date = DateShort
    /\ features[CheckedRecord].date = config.expected_dates[features[CheckedRecord].sha]
    /\ Returned /\ result = "False"

\* C15: the format check looks at the shape only: it passes exactly when the
\* date is 4 digits, '-', 2 digits, '-', 2 digits. '2024-13-45' passes it, and
\* passes the equality check too when it is the expected date.
C15_DateShapeOnly ==
    /\ LastCheckIs("date_format") =>
        /\ trace[Len(trace)].ok = IsYearMonthDay(features[CheckedRecord].date)
        /\ features[CheckedRecord].date = DateNoCalendar => trace[Len(trace)].ok
    /\ LastCheckIs("date_equal") =>
        trace[Len(trace)].ok = (features[CheckedRecord].date
                                    = config.expected_dates[features[CheckedRecord].sha])

\* a run returned True with a verified record dated 2024-13-45
C15_Witness ==
    /\ ReturnedTrue
    /\ \E k \in 1..Len(features) :
        /\ features[k].date = DateNoCalendar
        /\ RecordVerified(k)

-----------------------------------------------------------------------------
(* Properties of main *)

\* the process has ended
Exited == pc = "exited"

\* the environment file is missing or leaves the token or the organisation unset
EnvironmentUnusable ==
    \/ ~environment.file_exists
    \/ environment.GITHUB_TOKEN \in {NoneStr, <<>>}
    \/ environment.GITHUB_ORG \in {NoneStr, <<>>}

\* the configuration file is missing, is not parsable into a mapping, or lacks a field
ConfigUnusable ==
    \/ ~config_file.exists
    \/ config_file.yaml # "mapping"
    \/ Cardinality(config_file.fields \cap RequiredConfigFields) < Cardinality(RequiredConfigFields)

\* C16: the process exits with status 0 exactly when run_verification returned
\* true, and with status 1 on every failure: a missing environment file, a
\* missing token or organisation, a missing or unparsable configuration file, a
\* missing required field, or a false verdict. A startup failure ends the
\* process before any verification step or network request.
C16_ExitStatus ==
    /\ Exited = (exit_code # <<>>)
    /\ Exited =>
        /\ exit_code \in {<<0>>, <<1>>}
        /\ (exit_code = <<0>>) = (result = "True")
    /\ (EnvironmentUnusable \/ ConfigUnusable) =>
        /\ requests = <<>> /\ trace = <<>> /\ result = "None"
        /\ pc \in {"main_env", "main_config", "exited"}
        /\ Exited => exit_code = <<1>>
    /\ ~(EnvironmentUnusable \/ ConfigUnusable) =>
        (Exited => result \in {"True", "False", "Error"})

\* the process exited with status 0 after a run with a verified commit
C16_Witness ==
    /\ Exited
    /\ exit_code = <<0>>
    /\ result = "True"
    /\ RequestsOf("commit") # <<>>

-----------------------------------------------------------------------------
(* Properties of the parser: separators and header lines *)

\* the scan went on after line i
ScanWentOnAfter(i) == (pos = i /\ i < Len(lines)) => pc = "step3"

\* a row of dashes that also has a character other than "-" and "|"
IsImpureSeparatorRow(line) == IsSeparatorRow(line) /\ ~OnlyDashesAndPipes(line)

C18_MarkerLineAlwaysHeader ==
    /\ Len(origin) = Len(features)
    /\ \A i \in 1..pos :
        HasMarker(lines[i]) =>
            /\ in_table
            /\ RecordsFrom(i) = {}
            /\ ScanWentOnAfter(i)
    /\ in_table = (\E i \in 1..pos : HasMarker(lines[i]))

\* inside the table a heading with the marker and a second header row were
\* passed over, and the row after them was parsed
C18_Witness ==
    /\ ParseOver
    /\ Len(lines) = 4
    /\ lines[1] = HeaderRow
    /\ lines[2] = HeaderHeading
    /\ lines[3] = HeaderRow
    /\ Len(features) = 1
    /\ origin = <<4>>

-----------------------------------------------------------------------------
(* Properties of steps 6 and 7: which records are fetched, and the structural check *)

\* C19: every record the parser returns has all seven fields non-empty, so the
\* structural check of step 7 holds whenever it is evaluated and no run
\* returns false at step 7.
C19_Step7NeverFails ==
    /\ \A k \in 1..Len(features) :
        /\ features[k].name # <<>> /\ features[k].sha # <<>>
        /\ features[k].author # <<>> /\ features[k].branch # <<>>
        /\ features[k].date # <<>> /\ features[k].files_changed # <<>>
        /\ features[k].message # <<>>
    /\ \A i \in StepEntries(7) : trace[i].ok
    /\ (Returned /\ result = "False") => trace[Len(trace)].step # 7

\* step 7 was evaluated on a record that came from a row with a blank cell
C19_Witness ==
    /\ StepEntries(7) # {}
    /\ Len(origin) = Len(features)
    /\ \E k \in 1..Len(features) :
        lines[origin[k]] = GappedRow(<<"b">>, <<"t">>, <<"x">>, DateNoCalendar)

\* the indices of the parsed records whose sha is a key of expected_authors
ConfiguredRecords ==
    {k \in 1..Len(features) : features[k].sha \in DOMAIN config.expected_authors}

\* C20: commit fetches are issued in document order, exactly one for each
\* parsed record whose sha is a key of expected_authors, up to the first
\* failing check: a sha in k rows is fetched k times, a record with another sha
\* is passed over without a fetch, and a key of expected_authors that is in no
\* record is never fetched. A run that returns true has fetched once for each
\* such record and for nothing else, however many keys expected_authors has.
C20_OneFetchPerConfiguredRecord ==
    LET fetches == RequestsOf("commit") IN
    /\ \A i \in 1..Len(fetches) :
        /\ fetches[i].rec \in ConfiguredRecords
        /\ fetches[i].sha = features[fetches[i].rec].sha
        /\ i > 1 => fetches[i - 1].rec < fetches[i].rec
        /\ \A k \in ConfiguredRecords :
            k < fetches[i].rec => \E j \in 1..(i - 1) : fetches[j].rec = k
    /\ ReturnedTrue => {fetches[i].rec : i \in 1..Len(fetches)} = ConfiguredRecords
    /\ ParseOver /\ pc # "step4" /\ pc # "step5" /\ ~Returned =>
        \A k \in ConfiguredRecords : k < idx => \E i \in 1..Len(fetches) : fetches[i].rec = k

\* a run returned True having fetched one sha twice and another key never
C20_Witness ==
    /\ ReturnedTrue
    /\ Len(RequestsOf("commit")) = 2
    /\ RequestsOf("commit")[1].sha = RequestsOf("commit")[2].sha
    /\ \E key \in DOMAIN config.expected_authors :
        \A k \in 1..Len(features) : features[k].sha # key

=============================================================================
